---------------------------- MODULE Spec2Model ----------------------------
(***************************************************************************)
(* Model of app.py (Glucose ET v2.1): the ET engine                        *)
(* (compute_T_E, compute_dE_pct, classify_with_reason, detailed_guidance)  *)
(* and the Streamlit script that drives it (five number inputs, the        *)
(* "Analyze Meal" button and the right-hand output pane).                  *)
(*                                                                         *)
(* Numbers.  The program computes in IEEE doubles.  The script's model     *)
(* (Spec, SpecCore, SpecIso) keeps the exact value of every quantity as a  *)
(* reduced fraction and keeps the two non-finite outcomes of a float       *)
(* division by zero (inf and nan) as values of their own; there glucose is *)
(* an integer number of tenths of mmol/L, the step of the inputs.  The     *)
(* properties that turn on the last bit of a result are stated over Spec64,*)
(* in which compute_T_E and classify_with_reason are evaluated in binary64 *)
(* with every operation rounded to nearest, ties to even.                  *)
(***************************************************************************)
EXTENDS Integers, Sequences, FiniteSets, TLC

VARIABLES glucose, view, earlier

vars == <<glucose, view, earlier>>

-----------------------------------------------------------------------------
(* Bounds of the model *)

\* Glucose values the inputs are set to: 0.0 and the points
\* g_min + k * (g_max - g_min) / 4 for k = 0..GridMax (3.0, 8.5, 14.0, 19.5, 25.0, 30.5, ...)
GridMax == 5

\* A direct caller of the engine passes NPoints - LenSlack .. NPoints + LenSlack values
LenSlack == 1

-----------------------------------------------------------------------------
(* Floating-point values: finite fractions, +-inf, nan; and Python's None *)

Abs(x) == IF x < 0 THEN -x ELSE x

RECURSIVE Gcd(_, _)
Gcd(a, b) == IF b = 0 THEN a ELSE Gcd(b, a % b)

\* the finite number n/d (d > 0), reduced
Fin(n, d) ==
    LET g == Gcd(Abs(n), d)
    IN  [k |-> "fin", n |-> n \div g, d |-> d \div g]

Inf(s) == [k |-> "inf", n |-> s, d |-> 0]
NaN    == [k |-> "nan", n |-> 0, d |-> 0]
None   == [k |-> "none", n |-> 0, d |-> 0]

IsFinite(x) == x.k = "fin"
Sign(x) == IF x.n > 0 THEN 1 ELSE IF x.n < 0 THEN -1 ELSE 0

FNeg(x) == [x EXCEPT !.n = -x.n]

FAdd(x, y) ==
    IF x.k = "nan" \/ y.k = "nan" THEN NaN
    ELSE IF x.k = "inf" /\ y.k = "inf" THEN (IF x.n = y.n THEN x ELSE NaN)
    ELSE IF x.k = "inf" THEN x
    ELSE IF y.k = "inf" THEN y
    ELSE Fin(x.n * y.d + y.n * x.d, x.d * y.d)

FSub(x, y) == FAdd(x, FNeg(y))

FMul(x, y) ==
    IF x.k = "nan" \/ y.k = "nan" THEN NaN
    ELSE IF x.k = "inf" \/ y.k = "inf"
         THEN (IF Sign(x) * Sign(y) = 0 THEN NaN ELSE Inf(Sign(x) * Sign(y)))
    ELSE Fin(x.n * y.n, x.d * y.d)

\* numpy float64 division: x/0 is +-inf (nan for 0/0) with a RuntimeWarning, no exception
FDiv(x, y) ==
    IF x.k = "nan" \/ y.k = "nan" THEN NaN
    ELSE IF x.k = "inf" /\ y.k = "inf" THEN NaN
    ELSE IF x.k = "inf" THEN Inf(Sign(x) * (IF y.n < 0 THEN -1 ELSE 1))
    ELSE IF y.k = "inf" THEN Fin(0, 1)
    ELSE IF y.n = 0 THEN (IF x.n = 0 THEN NaN ELSE Inf(Sign(x)))
    ELSE Fin(x.n * y.d * Sign(y), x.d * Abs(y.n))

\* x < y; every comparison with nan is false
FLt(x, y) ==
    IF x.k = "nan" \/ y.k = "nan" THEN FALSE
    ELSE IF x.k = "inf" THEN x.n < 0 /\ ~(y.k = "inf" /\ y.n < 0)
    ELSE IF y.k = "inf" THEN y.n > 0
    ELSE x.n * y.d < y.n * x.d

FEq(x, y) == x.k # "nan" /\ y.k # "nan" /\ x = y
FGeq(x, y) == FLt(y, x) \/ FEq(x, y)
FLeq(x, y) == FGeq(y, x)

FMin(x, y) == IF FLt(y, x) THEN y ELSE x
FMax(x, y) == IF FLt(x, y) THEN y ELSE x

\* float(v) of an input given in tenths
Tenths(v) == Fin(v, 10)


-----------------------------------------------------------------------------
(* The ET engine *)

g_min == Fin(3, 1)
g_max == Fin(25, 1)

\* np.clip(x, lo, hi)
clip(x, lo, hi) == FMin(FMax(x, lo), hi)

\* compute_T_E: T = clip((g - g_min) / (g_max - g_min), 0, 1), E = 1 - T**2, elementwise
compute_T_E(g_values) ==
    LET g == [i \in 1..Len(g_values) |-> Tenths(g_values[i])]
        T == [i \in 1..Len(g) |->
                clip(FDiv(FSub(g[i], g_min), FSub(g_max, g_min)), Fin(0, 1), Fin(1, 1))]
        E == [i \in 1..Len(T) |-> FSub(Fin(1, 1), FMul(T[i], T[i]))]
    IN  [E |-> E, T |-> T]

\* dE_step with a guard that turns a zero predecessor into a plain 0.0
dE_step_guarded(prev, cur) ==
    IF FEq(prev, Fin(0, 1)) THEN Fin(0, 1)
    ELSE FMul(FDiv(FSub(cur, prev), prev), Fin(100, 1))

\* one step of compute_dE_pct: (E[i] - E[i-1]) / E[i-1] * 100.0
dE_step(prev, cur) == FMul(FDiv(FSub(cur, prev), prev), Fin(100, 1))

\* compute_dE_pct dividing by the baseline E[0] instead of the predecessor
compute_dE_pct_baseline(E) ==
    [i \in 1..Len(E) |->
        IF i = 1 THEN None ELSE FMul(FDiv(FSub(E[i], E[i - 1]), E[1]), Fin(100, 1))]

\* compute_dE_pct with its list shared between calls (a mutable default argument):
\* the entries of the kept invocation are still in it
compute_dE_pct_shared(E) ==
    LET own == [i \in 1..Len(E) |->
                   IF i = 1 THEN None
                   ELSE FMul(FDiv(FSub(E[i], E[i - 1]), E[i - 1]), Fin(100, 1))]
    IN  IF earlier.shown = "kept" /\ earlier.out.shown = "analysis"
        THEN earlier.out.dE \o Tail(own)
        ELSE own

\* compute_dE_pct: [None] followed by the step of every i in 1..len(E)-1
\* (entry i of the Python list is element i + 1 here)
compute_dE_pct(E) ==
    [i \in 1..Len(E) |-> IF i = 1 THEN None ELSE dE_step(E[i - 1], E[i])]

\* Python's sum(): 0 + xs[0] + xs[1] + ..., left to right
RECURSIVE SumUpTo(_, _)
SumUpTo(xs, n) == IF n = 0 THEN Fin(0, 1) ELSE FAdd(SumUpTo(xs, n - 1), xs[n])
sum(xs) == SumUpTo(xs, Len(xs))

\* np.min
RECURSIVE MinUpTo(_, _)
MinUpTo(xs, n) == IF n = 1 THEN xs[1] ELSE FMin(MinUpTo(xs, n - 1), xs[n])
np_min(xs) == MinUpTo(xs, Len(xs))

\* np.mean
np_mean(xs) == FDiv(sum(xs), Fin(Len(xs), 1))

reason_GREEN == "GREEN - mean Bio-Time level remains close to the pre-meal state; the contraction of biological time over this meal is mild."
reason_YELLOW == "YELLOW - mean Bio-Time level is moderately reduced; this meal consumes a noticeable fraction of regulatory time."
reason_RED == "RED - mean Bio-Time level is markedly reduced; this meal compresses biological time and limits recovery windows."

\* the thresholds of classify_with_reason
GREEN_MIN == Fin(90, 1)
YELLOW_MIN == Fin(75, 1)

\* bucket with strict comparisons
bucket_strict(E_mean_rel) ==
    IF FLt(GREEN_MIN, E_mean_rel) THEN [status |-> "GREEN", reason |-> reason_GREEN]
    ELSE IF FLt(YELLOW_MIN, E_mean_rel) THEN [status |-> "YELLOW", reason |-> reason_YELLOW]
    ELSE [status |-> "RED", reason |-> reason_RED]

\* the if / elif / else of classify_with_reason
bucket(E_mean_rel) ==
    IF FGeq(E_mean_rel, GREEN_MIN) THEN [status |-> "GREEN", reason |-> reason_GREEN]
    ELSE IF FGeq(E_mean_rel, YELLOW_MIN) THEN [status |-> "YELLOW", reason |-> reason_YELLOW]
    ELSE [status |-> "RED", reason |-> reason_RED]

\* mean_rel without the E_pre == 0 case
mean_rel_unguarded(E_pre, E_mean) == FMul(FDiv(E_mean, E_pre), Fin(100, 1))

\* mean_rel with the ratio upside down
mean_rel_inverted(E_pre, E_mean) ==
    IF FEq(E_pre, Fin(0, 1)) THEN Fin(100, 1)
    ELSE FMul(FDiv(E_pre, E_mean), Fin(100, 1))

\* E_mean_rel of classify_with_reason
mean_rel(E_pre, E_mean) ==
    IF FEq(E_pre, Fin(0, 1)) THEN Fin(100, 1)
    ELSE FMul(FDiv(E_mean, E_pre), Fin(100, 1))

classify_with_reason(E) ==
    LET E_pre == E[1]
        E_min == np_min(E)
        E_mean == np_mean(E)
        E_mean_rel == mean_rel(E_pre, E_mean)
        b == bucket(E_mean_rel)
    IN  [status |-> b.status, reason |-> b.reason, E_pre |-> E_pre, E_min |-> E_min,
         E_mean |-> E_mean, E_mean_rel |-> E_mean_rel]

guidance_GREEN == "**Scientific guidance**\n- The overall Bio-Time level stays near the pre-meal baseline.\n- Such meals are compatible with long-term metabolic resilience.\n- Maintain fibre and protein intake; avoid excessive liquid sugars.\n"
guidance_YELLOW == "**Scientific guidance**\n- The system accepts a moderate Bio-Time contraction to handle this meal.\n- Repeated YELLOW patterns may accumulate subtle 'time-debt' - fatigue or brain fog after meals.\n- Reducing fast sugars and adding fibre/protein can lower the Bio-Time cost.\n"
guidance_RED == "**Scientific guidance**\n- The meal induces a strong average contraction of biological time.\n- Recurrent RED patterns are compatible with higher metabolic and vascular stress.\n- Consider reducing high-GI and liquid carbohydrates and seeking professional advice if common.\n"

\* detailed_guidance without its YELLOW branch
detailed_guidance_two(status) ==
    IF status = "GREEN" THEN guidance_GREEN ELSE guidance_RED

detailed_guidance(status) ==
    IF status = "GREEN" THEN guidance_GREEN
    ELSE IF status = "YELLOW" THEN guidance_YELLOW
    ELSE guidance_RED

-----------------------------------------------------------------------------
(* The Streamlit script *)

\* range(5): the number of glucose inputs
NPoints == 5

\* number_input(min_value=0.0, max_value=40.0), in tenths
MinTenths == 0
MaxTenths == 400

\* the values an input is set to
Grid == {v \in {0} \cup {30 + 55 * k : k \in 0..GridMax} : MinTenths <= v /\ v <= MaxTenths}

\* the dict of the icon lookup
icons == [s \in {"GREEN", "YELLOW", "RED"} |->
            IF s = "GREEN" THEN "green_circle"
            ELSE IF s = "YELLOW" THEN "yellow_circle" ELSE "red_circle"]

\* the right-hand pane when the button was not pressed in this run
Info == [shown |-> "info"]

\* no earlier invocation is kept
NoEarlier == [shown |-> "none"]

\* dE[1:]
Tail1(s) == [i \in 1..(Len(s) - 1) |-> s[i + 1]]

\* [x for x in steps if x is not None]
not_None(xs) == SelectSeq(xs, LAMBDA x : x # None)

\* the else branch of "if not analyze": everything the right-hand pane shows
AnalyzeBranch(g_values) ==
    LET ET == compute_T_E(g_values)
        dE == compute_dE_pct(ET.E)
        steps == Tail1(dE)
        net == sum(not_None(steps))
        c == classify_with_reason(ET.E)
    IN  IF c.status \notin DOMAIN icons
        THEN [shown |-> "KeyError"]
        ELSE [shown |-> "analysis", E |-> ET.E, T |-> ET.T, dE |-> dE,
              icon |-> icons[c.status], status |-> c.status, steps |-> steps, net |-> net,
              reason |-> c.reason, E_pre |-> c.E_pre, E_min |-> c.E_min,
              E_mean |-> c.E_mean, E_mean_rel |-> c.E_mean_rel,
              guidance |-> detailed_guidance(c.status)]

\* The five inputs hold grid values (each such state is reached from the
\* defaults by editing the inputs); the button was not pressed.
Init ==
    /\ glucose \in [1..NPoints -> Grid]
    /\ view = Info
    /\ earlier = NoEarlier

\* The user edits input i: the script reruns with analyze = False.
SetGlucose(i, v) ==
    /\ glucose[i] # v
    /\ glucose' = [glucose EXCEPT ![i] = v]
    /\ view' = Info
    /\ UNCHANGED earlier

\* The user presses "Analyze Meal": the script reruns with analyze = True.
\* np.array(g_values, float) copies, so the list of inputs is left as it was.
\* (earlier.between only notes that an invocation on another input has run
\* since the kept one.)
Analyze ==
    /\ view' = AnalyzeBranch(glucose)
    /\ glucose' = glucose
    /\ earlier' = IF earlier.shown = "kept" /\ earlier.in # glucose
                  THEN [earlier EXCEPT !.between = TRUE]
                  ELSE earlier

Next ==
    \/ \E i \in 1..NPoints, v \in Grid : SetGlucose(i, v)
    \/ Analyze

Spec == Init /\ [][Next]_vars

-----------------------------------------------------------------------------
(* The engine called with a sequence of any length *)

\* the values of a directly passed sequence
CoreGrid == {30, 140, 250}

\* a caller passes NPoints - LenSlack .. NPoints + LenSlack values
InitCore ==
    /\ glucose \in UNION {[1..n -> CoreGrid] : n \in (NPoints - LenSlack)..(NPoints + LenSlack)}
    /\ view = Info
    /\ earlier = NoEarlier

NextCore == Analyze

SpecCore == InitCore /\ [][NextCore]_vars

-----------------------------------------------------------------------------
(* Several invocations, one of them kept for comparison *)

IsoGrid == {0, 140, 250}

InitIso ==
    /\ glucose \in [1..NPoints -> IsoGrid]
    /\ view = Info
    /\ earlier = NoEarlier

\* keep the invocation just shown: its input and its output record
Remember ==
    /\ view.shown # "info"
    /\ earlier' = [shown |-> "kept", in |-> glucose, out |-> view, between |-> FALSE]
    /\ UNCHANGED <<glucose, view>>

NextIso ==
    \/ \E i \in 1..NPoints, v \in IsoGrid : SetGlucose(i, v)
    \/ Analyze
    \/ Remember

SpecIso == InitIso /\ [][NextIso]_vars

-----------------------------------------------------------------------------
(* IEEE binary64 evaluation.  Where a claim turns on the last bit of a      *)
(* result, the engine is evaluated as the build evaluates it: every         *)
(* operation rounds its exact result to 53 significant bits, ties to even.  *)
(* A natural number is a sequence of limbs in base 2^15, lowest first, with *)
(* no zero limb at the top; a binary64 value is sign * m * 2^e with m of    *)
(* exactly 53 bits (m = <<>>, e = 0 for zero).                              *)

Limb == 32768
Precision == 53

\* the element of a one-element set: The({e : x \in {v}}) is e with x bound
\* to the value v
The(S) == CHOOSE x \in S : TRUE

RECURSIVE BTrim(_)
BTrim(a) ==
    IF a = <<>> THEN <<>>
    ELSE IF a[Len(a)] = 0 THEN BTrim(SubSeq(a, 1, Len(a) - 1)) ELSE a

BLimb(a, i) == IF i <= Len(a) THEN a[i] ELSE 0

\* a + b + c from limb i on (c is the carry in)
RECURSIVE BAddFrom(_, _, _, _)
BAddFrom(a, b, i, c) ==
    IF i > Len(a) /\ i > Len(b) THEN (IF c = 0 THEN <<>> ELSE <<c>>)
    ELSE LET x == BLimb(a, i) + BLimb(b, i) + c
         IN  <<x % Limb>> \o BAddFrom(a, b, i + 1, x \div Limb)

BAdd(a, b) == BAddFrom(a, b, 1, 0)

\* a - b - c from limb i on, for a >= b
RECURSIVE BSubFrom(_, _, _, _)
BSubFrom(a, b, i, c) ==
    IF i > Len(a) THEN <<>>
    ELSE LET x == a[i] - BLimb(b, i) - c
         IN  IF x < 0 THEN <<x + Limb>> \o BSubFrom(a, b, i + 1, 1)
             ELSE <<x>> \o BSubFrom(a, b, i + 1, 0)

BSub(a, b) == BTrim(BSubFrom(a, b, 1, 0))

\* -1, 0, 1 as a < b, a = b, a > b
RECURSIVE BCmpAt(_, _, _)
BCmpAt(a, b, i) ==
    IF i = 0 THEN 0
    ELSE IF a[i] < b[i] THEN -1
    ELSE IF a[i] > b[i] THEN 1
    ELSE BCmpAt(a, b, i - 1)

BCmp(a, b) ==
    IF Len(a) < Len(b) THEN -1
    ELSE IF Len(a) > Len(b) THEN 1
    ELSE BCmpAt(a, b, Len(a))

\* 2 * a + bit
BDouble(a, bit) == BAddFrom(a, a, 1, bit)

\* floor(a / 2)
BHalf(a) ==
    BTrim([i \in 1..Len(a) |->
             (a[i] \div 2) + (IF i < Len(a) THEN (a[i + 1] % 2) * (Limb \div 2) ELSE 0)])

BOdd(a) == a # <<>> /\ a[1] % 2 = 1

RECURSIVE IntBits(_)
IntBits(n) == IF n = 0 THEN 0 ELSE 1 + IntBits(n \div 2)

BBitLen(a) == IF a = <<>> THEN 0 ELSE 15 * (Len(a) - 1) + IntBits(a[Len(a)])

\* a * k for one limb k
RECURSIVE BMulLimbFrom(_, _, _, _)
BMulLimbFrom(a, k, i, c) ==
    IF i > Len(a) THEN (IF c = 0 THEN <<>> ELSE <<c>>)
    ELSE LET x == a[i] * k + c
         IN  <<x % Limb>> \o BMulLimbFrom(a, k, i + 1, x \div Limb)

BShiftLimb(a) == IF a = <<>> THEN <<>> ELSE <<0>> \o a

RECURSIVE BMulFrom(_, _, _)
BMulFrom(a, b, j) ==
    IF j > Len(b) THEN <<>>
    ELSE BAdd(BTrim(BMulLimbFrom(a, b[j], 1, 0)), BShiftLimb(BMulFrom(a, b, j + 1)))

BMul(a, b) == BMulFrom(a, b, 1)

Pow2 == <<1, 2, 4, 8, 16, 32, 64, 128, 256, 512, 1024, 2048, 4096, 8192, 16384>>

\* bit j of a (the lowest is bit 0)
BBit(a, j) == (BLimb(a, (j \div 15) + 1) \div Pow2[(j % 15) + 1]) % 2

\* a * 2^n
BShl(a, n) ==
    LET k == n \div 15
        p == Pow2[(n % 15) + 1]
    IN  BTrim([i \in 1..(Len(a) + k + 1) |->
                 IF i <= k THEN 0
                 ELSE ((BLimb(a, i - k) * p) % Limb)
                      + (IF i - k - 1 >= 1 THEN (BLimb(a, i - k - 1) * p) \div Limb ELSE 0)])

\* floor(a / 2^n)
BShr(a, n) ==
    LET k == n \div 15
        p == Pow2[(n % 15) + 1]
    IN  BTrim([i \in 1..(Len(a) - k) |->
                 (BLimb(a, i + k) \div p) + ((BLimb(a, i + k + 1) % p) * (Limb \div p))])

RECURSIVE BOfInt(_)
BOfInt(n) == IF n = 0 THEN <<>> ELSE <<n % Limb>> \o BOfInt(n \div Limb)

\* a shifted right by n >= 1 bits: the quotient, the last bit shifted out
\* (round) and whether any bit below it was set (sticky)
BShrRS(a, n) ==
    [q |-> BShr(a, n),
     round |-> BBit(a, n - 1) = 1,
     sticky |-> \E j \in 0..(n - 2) : BBit(a, j) = 1]

R_Zero == [s |-> 1, m |-> <<>>, e |-> 0, k |-> "fin"]
R_Inf(s) == [s |-> s, m |-> <<>>, e |-> 0, k |-> "inf"]
R_NaN == [s |-> 1, m |-> <<>>, e |-> 0, k |-> "nan"]

\* s * (M + a residue below M's last bit, when sticky) * 2^e rounded to 53
\* bits, ties to even
R_Round(s, M, e, sticky) ==
    IF M = <<>> THEN R_Zero
    ELSE The({
        IF L <= Precision
        THEN [s |-> s, m |-> BShl(M, Precision - L), e |-> e - (Precision - L), k |-> "fin"]
        ELSE The({
            The({
                IF BBitLen(q) > Precision
                THEN [s |-> s, m |-> BHalf(q), e |-> e + (L - Precision) + 1, k |-> "fin"]
                ELSE [s |-> s, m |-> q, e |-> e + (L - Precision), k |-> "fin"]
                : q \in {IF sh.round /\ (sh.sticky \/ sticky \/ BOdd(sh.q))
                         THEN BAdd(sh.q, <<1>>) ELSE sh.q} })
            : sh \in {BShrRS(M, L - Precision)} })
        : L \in {BBitLen(M)} })

\* float(n) of an integer (any sign)
R_Int(n) == R_Round(IF n < 0 THEN -1 ELSE 1, BOfInt(Abs(n)), 0, FALSE)

R_Neg(x) == IF x.m = <<>> /\ x.k = "fin" THEN x ELSE [x EXCEPT !.s = -x.s]

R_Add(x, y) ==
    IF x.m = <<>> THEN y
    ELSE IF y.m = <<>> THEN x
    ELSE LET e == IF x.e < y.e THEN x.e ELSE y.e
         IN  The({
                 The({
                     IF x.s # y.s /\ c = 0 THEN R_Zero
                     ELSE R_Round(IF x.s = y.s \/ c > 0 THEN x.s ELSE y.s,
                                  IF x.s = y.s THEN BAdd(X, Y)
                                  ELSE IF c > 0 THEN BSub(X, Y) ELSE BSub(Y, X),
                                  e, FALSE)
                     : c \in {BCmp(X, Y)} })
                 : X \in {BShl(x.m, x.e - e)}, Y \in {BShl(y.m, y.e - e)} })

R_Sub(x, y) == R_Add(x, R_Neg(y))

R_Mul(x, y) == R_Round(x.s * y.s, BMul(x.m, y.m), x.e + y.e, FALSE)

\* floor(a / 2^30) for a < 2^60
BTop(a) == BLimb(a, 3) + BLimb(a, 4) * Limb

\* floor(r / b) for r < 128 * b and b of 53 bits: the estimate from the top
\* bits is off by one at most
DivDigit(r, b) ==
    CHOOSE c \in UNION {{est - 1, est, est + 1} : est \in {BTop(r) \div BTop(b)}} :
        /\ c >= 0
        /\ BCmp(BTrim(BMulLimbFrom(b, c, 1, 0)), r) <= 0
        /\ BCmp(BTrim(BMulLimbFrom(b, c + 1, 1, 0)), r) > 0

\* the next n digits of 7 bits of the quotient of r by b (r < b), and the
\* remainder left
RECURSIVE DivDigits(_, _, _)
DivDigits(r, b, n) ==
    IF n = 0 THEN [q |-> <<>>, r |-> r]
    ELSE The({
        The({
            The({
                [q |-> BAdd(BShl(BOfInt(c), 7 * (n - 1)), rest.q), r |-> rest.r]
                : rest \in {DivDigits(BSub(r2, BTrim(BMulLimbFrom(b, c, 1, 0))), b, n - 1)} })
            : c \in {DivDigit(r2, b)} })
        : r2 \in {BShl(r, 7)} })

\* numpy float64 division: x / 0 is +-inf, 0 / 0 is nan
R_Div(x, y) ==
    IF y.m = <<>> THEN (IF x.m = <<>> THEN R_NaN ELSE R_Inf(x.s * y.s))
    ELSE IF x.m = <<>> THEN R_Zero
    ELSE The({
        The({
            R_Round(x.s * y.s, IF ge THEN BAdd(BShl(<<1>>, 56), d.q) ELSE d.q,
                    x.e - y.e - 56, d.r # <<>>)
            : d \in {DivDigits(IF ge THEN BSub(x.m, y.m) ELSE x.m, y.m, 8)} })
        : ge \in {BCmp(x.m, y.m) >= 0} })

\* x < y for finite values
R_Lt(x, y) ==
    IF x.s # y.s THEN x.s < y.s /\ ~(x.m = <<>> /\ y.m = <<>>)
    ELSE IF x.m = <<>> \/ y.m = <<>>
         THEN (IF x.m = <<>> THEN y.m # <<>> /\ y.s > 0 ELSE x.s < 0)
    ELSE LET c == IF x.e # y.e THEN (IF x.e < y.e THEN -1 ELSE 1) ELSE BCmp(x.m, y.m)
         IN  IF x.s > 0 THEN c < 0 ELSE c > 0

R_Geq(x, y) == ~R_Lt(x, y)
R_Min(x, y) == IF R_Lt(y, x) THEN y ELSE x
R_Max(x, y) == IF R_Lt(x, y) THEN y ELSE x

-----------------------------------------------------------------------------
(* The engine in binary64.  An input is an integer number of 1e-7 mmol/L,  *)
(* so that values as close to g_min as 3.0000001 can be passed.  The two   *)
(* calls of the pipeline, compute_T_E and then classify_with_reason on its *)
(* E, are one step each.                                                   *)

\* the double nearest to u * 1e-7
Float64(u) == R_Div(R_Int(u), R_Int(10000000))

g_min64 == R_Int(3)
g_max64 == R_Int(25)

\* compute_T_E without the clip
compute_T_E_64_unclipped(g_values) ==
    The({
        The({
            The({ [E |-> E, T |-> T]
                : E \in {[i \in 1..Len(T) |-> R_Sub(R_Int(1), R_Mul(T[i], T[i]))]} })
            : T \in {[i \in 1..Len(g) |->
                        R_Div(R_Sub(g[i], g_min64), R_Sub(g_max64, g_min64))]} })
        : g \in {[i \in 1..Len(g_values) |-> Float64(g_values[i])]} })

\* compute_T_E: every operation rounded
compute_T_E_64(g_values) ==
    The({
        The({
            The({ [E |-> E, T |-> T]
                : E \in {[i \in 1..Len(T) |-> R_Sub(R_Int(1), R_Mul(T[i], T[i]))]} })
            : T \in {[i \in 1..Len(g) |->
                        R_Min(R_Max(R_Div(R_Sub(g[i], g_min64), R_Sub(g_max64, g_min64)),
                                    R_Zero),
                              R_Int(1))]} })
        : g \in {[i \in 1..Len(g_values) |-> Float64(g_values[i])]} })

\* np.add.reduce: the elements added in index order
RECURSIVE SumUpTo64(_, _)
SumUpTo64(xs, n) == IF n = 0 THEN R_Zero ELSE R_Add(SumUpTo64(xs, n - 1), xs[n])

RECURSIVE MinUpTo64(_, _)
MinUpTo64(xs, n) == IF n = 1 THEN xs[1] ELSE R_Min(MinUpTo64(xs, n - 1), xs[n])

np_min64(xs) == MinUpTo64(xs, Len(xs))
np_mean64(xs) == R_Div(SumUpTo64(xs, Len(xs)), R_Int(Len(xs)))

\* mean_rel with the ratio upside down
mean_rel_64_inverted(E_pre, E_mean) ==
    IF E_pre = R_Zero THEN R_Int(100)
    ELSE R_Mul(R_Div(E_pre, E_mean), R_Int(100))

mean_rel_64(E_pre, E_mean) ==
    IF E_pre = R_Zero THEN R_Int(100)
    ELSE R_Mul(R_Div(E_mean, E_pre), R_Int(100))

bucket64(E_mean_rel) ==
    IF R_Geq(E_mean_rel, R_Int(90)) THEN [status |-> "GREEN", reason |-> reason_GREEN]
    ELSE IF R_Geq(E_mean_rel, R_Int(75)) THEN [status |-> "YELLOW", reason |-> reason_YELLOW]
    ELSE [status |-> "RED", reason |-> reason_RED]

classify_with_reason_64(E) ==
    The({
        The({
            The({ [status |-> b.status, reason |-> b.reason, E_pre |-> E_pre,
                   E_min |-> E_min, E_mean |-> E_mean, E_mean_rel |-> E_mean_rel]
                : b \in {bucket64(E_mean_rel)} })
            : E_mean_rel \in {mean_rel_64(E_pre, E_mean)} })
        : E_pre \in {E[1]}, E_min \in {np_min64(E)}, E_mean \in {np_mean64(E)} })

\* baselines: 0.0, 3.0, 3.0000001, 3.1, 14.0, 24.9999999, 25.0, 30.5
Base64 ==
    {0, 30000000, 30000001, 31000000, 140000000, 249999999, 250000000, 305000000}

\* post-meal samples: 3.1, 14.0, 25.0
Post64 == {31000000, 140000000, 250000000}

Init64 ==
    /\ glucose \in {<<b>> \o p : b \in Base64, p \in [1..(NPoints - 1) -> Post64]}
    /\ view = Info
    /\ earlier = NoEarlier

\* E, T = compute_T_E(glucose)
Map64 ==
    /\ view.shown = "info"
    /\ view' \in {[shown |-> "mapped64", E |-> ET.E, T |-> ET.T]
                    : ET \in {compute_T_E_64(glucose)}}
    /\ UNCHANGED <<glucose, earlier>>

\* status, reason, E_pre, E_min, E_mean, E_mean_rel = classify_with_reason(E)
Classify64 ==
    /\ view.shown = "mapped64"
    /\ view' \in {[shown |-> "analysis64", E |-> view.E, T |-> view.T,
                     status |-> c.status, reason |-> c.reason, E_pre |-> c.E_pre,
                     E_min |-> c.E_min, E_mean |-> c.E_mean, E_mean_rel |-> c.E_mean_rel]
                    : c \in {classify_with_reason_64(view.E)}}
    /\ UNCHANGED <<glucose, earlier>>

Next64 ==
    \/ Map64
    \/ Classify64

Spec64 == Init64 /\ [][Next64]_vars

-----------------------------------------------------------------------------
(* Properties *)

Analysed == view.shown = "analysis"
Status == {"GREEN", "YELLOW", "RED"}
Zero == Fin(0, 1)
One == Fin(1, 1)

reason_of(status) ==
    CASE status = "GREEN" -> reason_GREEN
      [] status = "YELLOW" -> reason_YELLOW
      [] status = "RED" -> reason_RED

\* C1: the status is GREEN exactly when E_mean_rel >= 90, YELLOW exactly when
\* 75 <= E_mean_rel < 90 and RED exactly when E_mean_rel < 75 (90 itself is
\* GREEN, 75 itself is YELLOW), and the reason is the fixed sentence of the status.
C1_Bands ==
    Analysed =>
        LET r == view.E_mean_rel
        IN  /\ r.k = "fin"
            /\ (view.status = "GREEN") <=> (r.n >= 90 * r.d)
            /\ (view.status = "YELLOW") <=> (r.n >= 75 * r.d /\ r.n < 90 * r.d)
            /\ (view.status = "RED") <=> (r.n < 75 * r.d)
            /\ view.status \in Status
            /\ view.reason = reason_of(view.status)

\* an analysis whose E_mean_rel is exactly 90.0, shown GREEN
C1_Witness ==
    Analysed /\ view.E_mean_rel = Fin(90, 1) /\ view.status = "GREEN"

\* C2: a baseline at or above 25.0 gives E_pre = 0, E_mean_rel = 100.0 and GREEN
\* whatever the other samples are; otherwise E_mean_rel = (E_mean / E_pre) * 100.
C2_ZeroBaseline ==
    Analysed =>
        LET r == view.E_mean_rel
            p == view.E_pre
            m == view.E_mean
        IN  /\ (glucose[1] >= 250) <=> (p = Zero)
            /\ p = Zero => (r = Fin(100, 1) /\ view.status = "GREEN")
            /\ p # Zero => /\ r.k = "fin" /\ p.k = "fin" /\ m.k = "fin"
                           /\ r.n * p.n * m.d = 100 * m.n * p.d * r.d

\* glucose [25.0, 25.0, 25.0, 25.0, 25.0] analysed and shown GREEN
C2_Witness ==
    /\ glucose = [i \in 1..NPoints |-> 250]
    /\ Analysed /\ view.E_pre = Zero /\ view.status = "GREEN"

\* C3: a step whose predecessor E is 0 (glucose at or above 25.0 at the sample
\* before) is produced as a non-finite value (inf or nan), never as an
\* ordinary finite number, and the analysis is shown (no exception).
C3_UndefinedStep ==
    /\ view.shown \in {"info", "analysis"}
    /\ Analysed =>
        \A i \in 2..Len(view.E) :
            (view.E[i - 1] = Zero \/ glucose[i - 1] >= 250) =>
                /\ view.dE[i].k \in {"inf", "nan"}
                /\ ~IsFinite(view.steps[i - 1])

\* an analysis whose first step has the predecessor E = 0 and is +inf
C3_Witness ==
    Analysed /\ glucose[1] = 250 /\ view.E[1] = Zero /\ view.dE[2] = Inf(1)

\* C4 as claimed: the net shift is finite and is the sum of the defined
\* (finite) steps, the undefined ones left out.
C4_NetFiniteSum ==
    Analysed =>
        /\ IsFinite(view.net)
        /\ view.net = sum(SelectSeq(view.steps, IsFinite))

\* C5 as claimed: a sequence whose length is not 5 gets a validation error
\* and nothing is computed from it.
C5_LengthValidated ==
    Len(glucose) # NPoints => view.shown \in {"info", "ValidationError"}

Analysed64 == view.shown = "analysis64"
R_One == R_Int(1)

\* C6 as claimed: strictly inside the band (3.0 < g < 25.0), 0 < E < 1.
C6_StrictInside ==
    Analysed64 =>
        \A i \in 1..Len(glucose) :
            (30000000 < glucose[i] /\ glucose[i] < 250000000) =>
                (R_Lt(R_Zero, view.E[i]) /\ R_Lt(view.E[i], R_One))

\* C6, amended: T and E have the length of the input; T is in [0, 1] and
\* E = 1 - T^2 is in [0, 1]; T = 0, E = 1 at or below 3.0; T = 1, E = 0 at or
\* above 25.0; strictly between, T = (g - 3.0) / 22.0 with 0 < T < 1 and
\* 0 < E <= 1, and E < 1 once g >= 3.1.
C6_Ranges64 ==
    Analysed64 =>
        /\ Len(view.T) = Len(glucose) /\ Len(view.E) = Len(glucose)
        /\ \A i \in 1..Len(glucose) :
            LET u == glucose[i]
                T == view.T[i]
                E == view.E[i]
            IN  /\ T.k = "fin" /\ E.k = "fin"
                /\ R_Geq(T, R_Zero) /\ R_Geq(R_One, T)
                /\ R_Geq(E, R_Zero) /\ R_Geq(R_One, E)
                /\ E = R_Sub(R_One, R_Mul(T, T))
                /\ u <= 30000000 => (T = R_Zero /\ E = R_One)
                /\ u >= 250000000 => (T = R_One /\ E = R_Zero)
                /\ (30000000 < u /\ u < 250000000) =>
                      /\ T = R_Div(R_Sub(Float64(u), R_Int(3)), R_Int(22))
                      /\ R_Lt(R_Zero, T) /\ R_Lt(T, R_One)
                      /\ R_Lt(R_Zero, E)
                      /\ u >= 31000000 => R_Lt(E, R_One)

\* a baseline of 3.0000001 mapped to T > 0 and E = 1.0, beside samples inside
\* the band and one at 25.0
C6_Witness64 ==
    /\ Analysed64 /\ glucose[1] = 30000001 /\ glucose[2] = 140000000
    /\ glucose[3] = 250000000
    /\ R_Lt(R_Zero, view.T[1]) /\ view.E[1] = R_One /\ R_Lt(view.E[2], R_One)

\* C7: with no zero among E[0..3], compute_dE_pct gives 5 entries, entry 0
\* None and entry i = (E[i] - E[i-1]) / E[i-1] * 100 for i in 1..4; the
\* caller's steps are exactly the entries 1..4.
C7_Steps ==
    (Analysed /\ \A i \in 1..(NPoints - 1) : view.E[i] # Zero) =>
        /\ Len(view.dE) = NPoints
        /\ view.dE[1] = None
        /\ \A i \in 2..NPoints :
            LET s == view.dE[i]
                p == view.E[i - 1]
                c == view.E[i]
            IN  /\ s.k = "fin"
                /\ s.n * p.n * c.d = 100 * s.d * (c.n * p.d - p.n * c.d)
        /\ Len(view.steps) = NPoints - 1
        /\ \A j \in 1..(NPoints - 1) : view.steps[j] = view.dE[j + 1]

\* glucose [3.0, 8.5, 14.0, 19.5, 25.0] analysed: four finite steps, the last -100
C7_Witness ==
    /\ glucose = <<30, 85, 140, 195, 250>>
    /\ Analysed /\ view.steps[1] = Fin(-25, 4) /\ view.steps[4] = Fin(-100, 1)

\* C8: detailed_guidance gives each of GREEN, YELLOW, RED its own block, the
\* three blocks differ, and every analysis shown has a status of that set
\* with its icon and its block (the icon lookup never fails).
C8_GuidanceTotal ==
    /\ detailed_guidance("GREEN") = guidance_GREEN
    /\ detailed_guidance("YELLOW") = guidance_YELLOW
    /\ detailed_guidance("RED") = guidance_RED
    /\ Cardinality({detailed_guidance(s) : s \in Status}) = 3
    /\ view.shown \in {"info", "analysis"}
    /\ Analysed =>
        /\ view.status \in Status
        /\ view.status \in DOMAIN icons
        /\ view.icon = icons[view.status]
        /\ view.guidance = detailed_guidance(view.status)
        /\ view.guidance \in {guidance_GREEN, guidance_YELLOW, guidance_RED}

\* a YELLOW analysis shown with the YELLOW block
C8_Witness ==
    Analysed /\ view.status = "YELLOW" /\ view.guidance = guidance_YELLOW
             /\ view.icon = "yellow_circle"

\* the kept invocation and the one shown now agree
SameAsKept ==
    (earlier.shown = "kept" /\ view.shown # "info") =>
        /\ earlier.in = glucose => earlier.out = view
        /\ (earlier.out.shown = "analysis" /\ Analysed
               /\ earlier.out.E_mean_rel = view.E_mean_rel)
              => earlier.out.status = view.status

NoRise == \A i \in 2..Len(glucose) : glucose[i] <= glucose[1]

\* C10 as claimed: when no post-meal sample is above the baseline the status
\* is GREEN with E_min = E_pre <= E_mean and E_mean_rel >= 100.0.
C10_NoRiseExact ==
    (Analysed64 /\ NoRise) =>
        /\ view.status = "GREEN"
        /\ view.E_min = view.E_pre
        /\ R_Geq(view.E_mean, view.E_pre)
        /\ R_Geq(view.E_mean_rel, R_Int(100))

\* C10, amended: when no post-meal sample is above the baseline the status is
\* GREEN with E_min = E_pre and E_mean_rel >= 99.999999 (100.0 up to the
\* rounding of the mean); a YELLOW or RED status needs a post-meal sample
\* above the baseline and a baseline below 25.0.
C10_NoRise64 ==
    Analysed64 =>
        /\ NoRise =>
            /\ view.status = "GREEN"
            /\ view.E_min = view.E_pre
            /\ R_Geq(view.E_mean_rel, R_Div(R_Int(99999999), R_Int(1000000)))
        /\ view.status # "GREEN" =>
            /\ \E i \in 2..Len(glucose) : glucose[i] > glucose[1]
            /\ glucose[1] < 250000000

\* a falling meal (14.0 then 3.1 and 14.0): GREEN, E_mean_rel above 100
C10_Witness64 ==
    /\ Analysed64 /\ glucose = <<140000000, 31000000, 31000000, 140000000, 31000000>>
    /\ view.status = "GREEN" /\ view.E_min = view.E_pre
    /\ R_Lt(R_Int(100), view.E_mean_rel)

=============================================================================
